---------------------------- MODULE Spec2Model ----------------------------
(***************************************************************************)
(* The two workshop notebooks of TorchServeOnAWS, each run top to bottom   *)
(* by "Run All":                                                           *)
(*                                                                         *)
(*   2_serving_natively_with_amazon_sagemaker/deploy.ipynb   (SpecDeploy)  *)
(*   4_torchserve_byoc_with_amazon_sagemaker/Lab_04_gpu.ipynb   (SpecLab)  *)
(*                                                                         *)
(* A notebook is a sequence of code cells; the kernel executes them in     *)
(* order and stops at the first cell that raises.  A "!cmd" line never     *)
(* raises on a non-zero exit status; a "%%bash" cell does.  The state is   *)
(* the kernel's namespace together with the part of the outside world the  *)
(* cells act on: the SageMaker endpoints of the account, and the           *)
(* containers and images of the notebook host's Docker daemon.             *)
(***************************************************************************)
EXTENDS Integers, Sequences, FiniteSets, TLC

\* Timestamps name_from_base can draw (the wall clock only moves forward).
MaxClock == 3
\* Largest number of CUDA devices the host may report.
MaxDevices == 8

\* An unbound variable of the kernel.
None == "none"
\* No endpoint or model name.
NoName == << >>

-----------------------------------------------------------------------------
(* deploy.ipynb                                                            *)

VARIABLES
    dpc,            \* index into DeployCells of the next cell to execute
    draised,        \* a cell raised: Run All stopped there
    clock,          \* wall clock read by name_from_base
    model,          \* PyTorchModel.name, or NoName before the cell ran
    endpoint_name,  \* the notebook's endpoint_name variable
    predictor,      \* endpoint the predictor returned by deploy is bound to
    test_data,      \* the notebook's test_data variable
    prediction,     \* the notebook's prediction variable
    endpoints,      \* SageMaker: endpoint name -> status, for existing endpoints
    deployArg,      \* history: endpoint_name= given to model.deploy
    deleteArg,      \* history: EndpointName= given to sm.delete_endpoint
    predictLog      \* history: one record per predictor.predict call

deployVars == <<dpc, draised, clock, model, endpoint_name, predictor, test_data,
                prediction, endpoints, deployArg, deleteArg, predictLog>>

VARIABLES
    lpc,            \* index into LabCells of the next cell to execute
    lraised,        \* a cell raised: Run All stopped there
    is_available,   \* what torch.cuda.is_available() returned, or None
    device_count,   \* what torch.cuda.device_count() returned, or None
    printed,        \* the lines the GPU pre-check cell printed
    images,         \* Docker: image tags present
    containers,     \* Docker: containers, each [name, ports, rm, state]
    startLog,       \* history: the containers there at each run of start_densenet.sh
    curlLog         \* history: one record per curl to localhost

labVars == <<lpc, lraised, is_available, device_count, printed, images,
             containers, startLog, curlLog>>

vars == <<deployVars, labVars>>

\* The code cells of deploy.ipynb, in notebook order.
DeployCells == <<"setup", "model", "deploy",
                 "test_data_1", "predict_1", "print_1",
                 "test_data_2", "predict_2", "print_2",
                 "test_data_3", "predict_3", "print_3",
                 "delete_endpoint">>

DeployDone == dpc = Len(DeployCells) + 1

AtDeploy(c) == ~draised /\ dpc <= Len(DeployCells) /\ DeployCells[dpc] = c

\* sagemaker.utils.name_from_base(base): base plus the current timestamp.
name_from_base(base, ts) == <<base, ts>>

Texts == [test_data_1 |-> "text_positive",
          test_data_2 |-> "text_neutral",
          test_data_3 |-> "text_negative"]

Sentiments == {"positive", "neutral", "negative"}

InService(e) == e \in DOMAIN endpoints /\ endpoints[e] = "InService"

\* Endpoint e added to (or updated in) the account with status s.
PutEndpoint(e, s) == [x \in DOMAIN endpoints \cup {e} |->
                         IF x = e THEN s ELSE endpoints[x]]

\* Endpoint e removed from the account.
DropEndpoint(e) == [x \in DOMAIN endpoints \ {e} |-> endpoints[x]]

InitDeploy ==
    /\ dpc = 1
    /\ draised = FALSE
    /\ clock = 1
    /\ model = NoName
    /\ endpoint_name = NoName
    /\ predictor = NoName
    /\ test_data = None
    /\ prediction = None
    /\ endpoints = << >>
    /\ deployArg = NoName
    /\ deleteArg = NoName
    /\ predictLog = << >>

\* imports, boto3 session and client, execution role, model_artefact
SetupCell ==
    /\ AtDeploy("setup")
    /\ dpc' = dpc + 1
    /\ UNCHANGED <<draised, clock, model, endpoint_name, predictor, test_data,
                   prediction, endpoints, deployArg, deleteArg, predictLog>>
    /\ UNCHANGED labVars

\* class SentimentAnalysis; model = PyTorchModel(name=name_from_base(...), ...)
ModelCell ==
    /\ AtDeploy("model")
    /\ \E ts \in clock..MaxClock :
          /\ clock' = ts
          /\ model' = name_from_base("roberta-model", ts)
    /\ dpc' = dpc + 1
    /\ UNCHANGED <<draised, endpoint_name, predictor, test_data, prediction,
                   endpoints, deployArg, deleteArg, predictLog>>
    /\ UNCHANGED labVars

\* endpoint_name = name_from_base(...); predictor = model.deploy(...): deploy
\* returns once the endpoint is InService
DeployCell ==
    /\ AtDeploy("deploy")
    /\ \E ts \in clock..MaxClock :
          /\ clock' = ts
          /\ endpoint_name' = name_from_base("roberta-model", ts)
    /\ deployArg' = endpoint_name'
    /\ endpoints' = PutEndpoint(endpoint_name', "InService")
    /\ predictor' = endpoint_name'
    /\ dpc' = dpc + 1
    /\ UNCHANGED <<draised, model, test_data, prediction, deleteArg, predictLog>>
    /\ UNCHANGED labVars

\* the same cell when the endpoint fails to come up: deploy raises after
\* endpoint_name is assigned, predictor stays unbound, the endpoint is left Failed
DeployCellRaises ==
    /\ AtDeploy("deploy")
    /\ \E ts \in clock..MaxClock :
          /\ clock' = ts
          /\ endpoint_name' = name_from_base("roberta-model", ts)
    /\ deployArg' = endpoint_name'
    /\ endpoints' = PutEndpoint(endpoint_name', "Failed")
    /\ draised' = TRUE
    /\ UNCHANGED <<dpc, model, predictor, test_data, prediction, deleteArg,
                   predictLog>>
    /\ UNCHANGED labVars

\* test_data = {"text": ...}; print(test_data)
TestDataCell(c) ==
    /\ AtDeploy(c)
    /\ test_data' = Texts[c]
    /\ dpc' = dpc + 1
    /\ UNCHANGED <<draised, clock, model, endpoint_name, predictor, prediction,
                   endpoints, deployArg, deleteArg, predictLog>>
    /\ UNCHANGED labVars

\* What one predictor.predict call leaves in the history.
PredictRecord == [endpoint |-> predictor,
                  inService |-> InService(predictor),
                  deployed |-> deployArg # NoName,
                  deleted |-> deleteArg # NoName]

\* prediction = predictor.predict(test_data)
PredictCell(c) ==
    /\ AtDeploy(c)
    /\ predictLog' = Append(predictLog, PredictRecord)
    /\ IF InService(predictor)
          THEN /\ \E s \in Sentiments : prediction' = s
               /\ dpc' = dpc + 1
               /\ UNCHANGED draised
          ELSE /\ draised' = TRUE
               /\ UNCHANGED <<dpc, prediction>>
    /\ UNCHANGED <<clock, model, endpoint_name, predictor, test_data, endpoints,
                   deployArg, deleteArg>>
    /\ UNCHANGED labVars

\* print(f'Review text: ...'); print(f'Sentiment  : ...')
PrintCell(c) ==
    /\ AtDeploy(c)
    /\ dpc' = dpc + 1
    /\ UNCHANGED <<draised, clock, model, endpoint_name, predictor, test_data,
                   prediction, endpoints, deployArg, deleteArg, predictLog>>
    /\ UNCHANGED labVars

DeleteEndpointNameOfModel == model

\* The EndpointName= argument of sm.delete_endpoint.
DeleteEndpointName == endpoint_name

\* sm.delete_endpoint(EndpointName=endpoint_name): raises for an unknown name
DeleteEndpointCell ==
    /\ AtDeploy("delete_endpoint")
    /\ deleteArg' = DeleteEndpointName
    /\ IF DeleteEndpointName \in DOMAIN endpoints
          THEN /\ endpoints' = DropEndpoint(DeleteEndpointName)
               /\ dpc' = dpc + 1
               /\ UNCHANGED draised
          ELSE /\ draised' = TRUE
               /\ UNCHANGED <<dpc, endpoints>>
    /\ UNCHANGED <<clock, model, endpoint_name, predictor, test_data, prediction,
                   deployArg, predictLog>>
    /\ UNCHANGED labVars

-----------------------------------------------------------------------------
(* Lab_04_gpu.ipynb                                                        *)


\* The code cells of Lab_04_gpu.ipynb, in notebook order.
LabCells == <<"gpu_check", "prerequisites", "docker_build", "docker_run",
              "curl_ping", "curl_models_1", "docker_stop", "build_image",
              "copy_script", "start_densenet", "curl_models_2",
              "download_images", "curl_predictions", "container_stop",
              "cleanup">>

LabDone == lpc = Len(LabCells) + 1

AtLab(c) == ~lraised /\ lpc <= Len(LabCells) /\ LabCells[lpc] = c

InferencePort == 8080
ManagementPort == 8081
TorchServePorts == {InferencePort, ManagementPort}

\* Python's int(bool).
BoolToInt(b) == IF b THEN 1 ELSE 0

\* Python's & on non-negative ints.
RECURSIVE BitAnd(_, _)
BitAnd(a, b) ==
    IF a = 0 \/ b = 0 THEN 0
    ELSE (a % 2) * (b % 2) + 2 * BitAnd(a \div 2, b \div 2)

\* torch.cuda.is_available() & torch.cuda.device_count() > 0
\* & binds tighter than >, and bool & int is the int bitwise and.
GpuCheck(avail, count) == BitAnd(BoolToInt(avail), count) > 0

Running == {c \in containers : c.state = "running"}

Publishing(p) == {c \in Running : p \in c.ports}

\* docker run -d [--rm] --name name -p ... [--gpus all] image succeeds when the
\* image exists, the name is free, no running container publishes one of the
\* ports and, with --gpus, the host has a GPU.
CanRun(name, ports, image, gpus) ==
    /\ image \in images
    /\ \A c \in containers : c.name # name
    /\ \A p \in ports : Publishing(p) = {}
    /\ gpus => device_count > 0

docker_run(name, ports, rm) ==
    containers \cup {[name |-> name, ports |-> ports, rm |-> rm,
                      state |-> "running"]}

docker_stop_noop(name) == containers

\* docker stop name: the container exits, and is removed if it was run --rm.
docker_stop(name) ==
    {c \in containers : c.name # name \/ c.state # "running"}
    \cup {[c EXCEPT !.state = "exited"] :
             c \in {x \in containers :
                      x.name = name /\ x.state = "running" /\ ~x.rm}}

\* scripts/start_densenet.sh --gpu: starts TorchServe with densenet161
\* registered, GPU image, in a container named torchserve_container
\* publishing the inference and management ports.
start_densenet ==
    IF CanRun("torchserve_container", TorchServePorts, "pytorch/torchserve:dev-gpu", TRUE)
       THEN docker_run("torchserve_container", TorchServePorts, TRUE)
       ELSE containers

\* What one curl to http://localhost:port/path leaves in the history.
CurlRecord(port, path) ==
    [port |-> port, path |-> path,
     running |-> {c.name : c \in Running},
     serving |-> {c.name : c \in Publishing(port)}]

InitLab ==
    /\ lpc = 1
    /\ lraised = FALSE
    /\ is_available = None
    /\ device_count = None
    /\ printed = << >>
    /\ images = {}
    /\ containers = {}
    /\ startLog = << >>
    /\ curlLog = << >>

\* import torch; print(torch.cuda.is_available() & torch.cuda.device_count() > 0)
GpuCheckCell ==
    /\ AtLab("gpu_check")
    /\ \E avail \in BOOLEAN, count \in 0..MaxDevices :
          /\ is_available' = avail
          /\ device_count' = count
          /\ printed' = Append(printed, GpuCheck(avail, count))
    /\ lpc' = lpc + 1
    /\ UNCHANGED <<lraised, images, containers, startLog, curlLog>>
    /\ UNCHANGED deployVars

\* !chmod +x ./scripts/prerequisites.sh; !./scripts/prerequisites.sh
PrerequisitesCell ==
    /\ AtLab("prerequisites")
    /\ lpc' = lpc + 1
    /\ UNCHANGED <<lraised, is_available, device_count, printed, images,
                   containers, startLog, curlLog>>
    /\ UNCHANGED deployVars

\* %%bash docker build ... -t torchserve:gpu-latest .
DockerBuildCell ==
    /\ AtLab("docker_build")
    /\ images' = images \cup {"torchserve:gpu-latest"}
    /\ lpc' = lpc + 1
    /\ UNCHANGED <<lraised, is_available, device_count, printed, containers,
                   startLog, curlLog>>
    /\ UNCHANGED deployVars

\* %%bash docker run -d --rm -it --name no_model_container --gpus all
\*        -p 8080:8080 -p 8081:8081 torchserve:gpu-latest
DockerRunCell ==
    /\ AtLab("docker_run")
    /\ IF CanRun("no_model_container", TorchServePorts, "torchserve:gpu-latest", TRUE)
          THEN /\ containers' = docker_run("no_model_container", TorchServePorts, TRUE)
               /\ lpc' = lpc + 1
               /\ UNCHANGED lraised
          ELSE /\ lraised' = TRUE
               /\ UNCHANGED <<lpc, containers>>
    /\ UNCHANGED <<is_available, device_count, printed, images, startLog, curlLog>>
    /\ UNCHANGED deployVars

\* !curl http://localhost:8080/ping
CurlPingCell ==
    /\ AtLab("curl_ping")
    /\ curlLog' = Append(curlLog, CurlRecord(InferencePort, "/ping"))
    /\ lpc' = lpc + 1
    /\ UNCHANGED <<lraised, is_available, device_count, printed, images,
                   containers, startLog>>
    /\ UNCHANGED deployVars

\* !curl http://localhost:8081/models
CurlModelsCell(c) ==
    /\ AtLab(c)
    /\ curlLog' = Append(curlLog, CurlRecord(ManagementPort, "/models"))
    /\ lpc' = lpc + 1
    /\ UNCHANGED <<lraised, is_available, device_count, printed, images,
                   containers, startLog>>
    /\ UNCHANGED deployVars

\* !docker stop no_model_container
DockerStopCell ==
    /\ AtLab("docker_stop")
    /\ containers' = docker_stop("no_model_container")
    /\ lpc' = lpc + 1
    /\ UNCHANGED <<lraised, is_available, device_count, printed, images,
                   startLog, curlLog>>
    /\ UNCHANGED deployVars

\* %%bash ./build_image.sh -b master -g
BuildImageCell ==
    /\ AtLab("build_image")
    /\ images' = images \cup {"pytorch/torchserve:dev-gpu"}
    /\ lpc' = lpc + 1
    /\ UNCHANGED <<lraised, is_available, device_count, printed, containers,
                   startLog, curlLog>>
    /\ UNCHANGED deployVars

\* !cp ./scripts/start_densenet.sh ./serve/docker/.; !chmod +x ...
CopyScriptCell ==
    /\ AtLab("copy_script")
    /\ lpc' = lpc + 1
    /\ UNCHANGED <<lraised, is_available, device_count, printed, images,
                   containers, startLog, curlLog>>
    /\ UNCHANGED deployVars

\* !serve/docker/start_densenet.sh --gpu
StartDensenetCell ==
    /\ AtLab("start_densenet")
    /\ startLog' = Append(startLog, {[name |-> c.name, state |-> c.state] : c \in containers})
    /\ containers' = start_densenet
    /\ lpc' = lpc + 1
    /\ UNCHANGED <<lraised, is_available, device_count, printed, images, curlLog>>
    /\ UNCHANGED deployVars

\* !curl -O https://torchserve-workshop.s3.amazonaws.com/....jpg (twice)
DownloadImagesCell ==
    /\ AtLab("download_images")
    /\ lpc' = lpc + 1
    /\ UNCHANGED <<lraised, is_available, device_count, printed, images,
                   containers, startLog, curlLog>>
    /\ UNCHANGED deployVars

\* !curl -X POST http://localhost:8080/predictions/densenet161 -T ... (twice)
CurlPredictionsCell ==
    /\ AtLab("curl_predictions")
    /\ curlLog' = curlLog \o
                  << CurlRecord(InferencePort, "/predictions/densenet161"),
                     CurlRecord(InferencePort, "/predictions/densenet161") >>
    /\ lpc' = lpc + 1
    /\ UNCHANGED <<lraised, is_available, device_count, printed, images,
                   containers, startLog>>
    /\ UNCHANGED deployVars

\* !docker container stop torchserve_container
ContainerStopCell ==
    /\ AtLab("container_stop")
    /\ containers' = docker_stop("torchserve_container")
    /\ lpc' = lpc + 1
    /\ UNCHANGED <<lraised, is_available, device_count, printed, images,
                   startLog, curlLog>>
    /\ UNCHANGED deployVars

\* !chmod +x ./scripts/cleanup.sh; !./scripts/cleanup.sh
CleanupCell ==
    /\ AtLab("cleanup")
    /\ lpc' = lpc + 1
    /\ UNCHANGED <<lraised, is_available, device_count, printed, images,
                   containers, startLog, curlLog>>
    /\ UNCHANGED deployVars

-----------------------------------------------------------------------------
(* Specifications                                                          *)

Init == InitDeploy /\ InitLab

NextDeploy ==
    \/ SetupCell
    \/ ModelCell
    \/ DeployCell
    \/ DeployCellRaises
    \/ \E c \in {"test_data_1", "test_data_2", "test_data_3"} : TestDataCell(c)
    \/ \E c \in {"predict_1", "predict_2", "predict_3"} : PredictCell(c)
    \/ \E c \in {"print_1", "print_2", "print_3"} : PrintCell(c)
    \/ DeleteEndpointCell

NextLab ==
    \/ GpuCheckCell
    \/ PrerequisitesCell
    \/ DockerBuildCell
    \/ DockerRunCell
    \/ CurlPingCell
    \/ \E c \in {"curl_models_1", "curl_models_2"} : CurlModelsCell(c)
    \/ DockerStopCell
    \/ BuildImageCell
    \/ CopyScriptCell
    \/ StartDensenetCell
    \/ DownloadImagesCell
    \/ CurlPredictionsCell
    \/ ContainerStopCell
    \/ CleanupCell

\* deploy.ipynb alone
SpecDeploy == Init /\ [][NextDeploy]_vars

\* Lab_04_gpu.ipynb alone
SpecLab == Init /\ [][NextLab]_vars

Next == NextDeploy \/ NextLab

Spec == Init /\ [][Next]_vars

-----------------------------------------------------------------------------
(* Properties                                                              *)

\* C8: in deploy.ipynb run top to bottom, the endpoint given to
\* delete_endpoint is the one model.deploy created, every predictor.predict
\* call is made on that endpoint after deploy returned (the endpoint is in
\* service) and before delete_endpoint was called, and once the last cell
\* has run no endpoint of the notebook is left in service.
C8_EndpointLifecycle ==
    /\ deleteArg # NoName => deleteArg = deployArg
    /\ \A i \in 1..Len(predictLog) :
          /\ predictLog[i].deployed
          /\ predictLog[i].endpoint = deployArg
          /\ predictLog[i].inService
          /\ ~predictLog[i].deleted
    /\ DeployDone => \A e \in DOMAIN endpoints : endpoints[e] # "InService"

\* C8 witness: the notebook ran to its end, with its three predictions made
\* and the deployed endpoint deleted.
C8_Witness ==
    /\ DeployDone
    /\ Len(predictLog) = 3
    /\ deployArg # NoName
    /\ deleteArg = deployArg
    /\ model # deployArg

\* C9: in Lab_04_gpu.ipynb run top to bottom, no host port is published by
\* two running containers at once, no_model_container is stopped and removed
\* by the time start_densenet.sh runs, and every curl to /ping, /models or
\* /predictions is issued while exactly one container is running, the one
\* publishing the port the curl goes to.
C9_PortsExclusive ==
    /\ \A p \in TorchServePorts : Cardinality(Publishing(p)) <= 1
    /\ \A i \in 1..Len(startLog) :
          \A c \in startLog[i] : c.name # "no_model_container"
    /\ \A i \in 1..Len(curlLog) :
          /\ Cardinality(curlLog[i].running) = 1
          /\ curlLog[i].serving = curlLog[i].running

\* C9 witness: the lab ran to its end: both containers were started in turn,
\* all five curls were issued, the last of them served by torchserve_container.
C9_Witness ==
    /\ LabDone
    /\ Len(startLog) = 1
    /\ Len(curlLog) = 5
    /\ curlLog[1].serving = {"no_model_container"}
    /\ curlLog[5].serving = {"torchserve_container"}
    /\ containers = {}

\* C10: the GPU pre-check cell prints True exactly when CUDA is available and
\* the device count is greater than 0.
C10_GpuCheckIsConjunction ==
    \A i \in 1..Len(printed) :
        printed[i] = (is_available /\ device_count > 0)

=============================================================================
